---- MODULE Spec2Model ----
(***************************************************************************)
(* hapctl-rs: the IAM credential cache (src/src/iam.rs) and the process     *)
(* that uses it (src/src/client.rs, src/src/main.rs).                      *)
(*                                                                         *)
(* iam::Client holds Arc<Mutex<Option<Token>>>.  Client::token() locks the *)
(* mutex, returns a clone of the cached token when Token::valid() says it  *)
(* is not expired, and otherwise calls request_token(), stores the result  *)
(* and returns a clone of it.  request_token() panics (expect / unwrap)    *)
(* when the exchange fails; a panic under the guard poisons the mutex.     *)
(*                                                                         *)
(* Time is the monotonic clock (std::time::Instant) in whole seconds.      *)
(* Option<T> is a sequence of length 0 (None) or 1 (Some(x)).              *)
(***************************************************************************)
EXTENDS Integers, Sequences, FiniteSets

\* ---------------------------------------------------------------- bounds
\* number of threads sharing one iam::Client
NThreads == 2
\* calls of Client::token() the threads make in all
MaxCalls == 3
\* last reading of the monotonic clock the model explores
MaxTime == 2
\* width, in bits, of the seconds counters: Instant holds a signed counter
\* (i64 tv_sec in the source), expires_in an unsigned one (u64)
SecsBits == 12

\* calls of get_weight / set_weight one process makes at most
MaxCmds == 2
\* longest server name the model passes to get_weight / set_weight
MaxNameLen == 3

\* ------------------------------------------------------------- constants
\* expires_in.unwrap_or_else(|| 1200)
DefaultLifetime == 1200

Threads == 1..NThreads
NoThread == 0

\* largest seconds value an Instant can hold (i64::MAX, scaled to SecsBits)
InstantMax == 2^(SecsBits - 1) - 1
\* largest expires_in the response can carry (u64::MAX, scaled to SecsBits)
U64Max == 2^SecsBits - 1

\* ---------------------------------------------------------------- Option
None == <<>>
Some(x) == <<x>>
IsSome(o) == Len(o) = 1
unwrap(o) == o[1]
unwrap_or(o, d) == IF o = None THEN d ELSE o[1]

VARIABLES
    cached,      \* the Option<Token> inside the mutex
    lock_owner,  \* thread holding the MutexGuard, or NoThread
    poisoned,    \* poison flag of the mutex
    now,         \* Instant::now()
    pc,          \* where each thread is in Client::token()
    calls,       \* number of token() calls started so far
    fetches,     \* number of request_token() invocations so far
    requests,    \* number of POSTs sent to the identity endpoint so far
    issued,      \* the tokens request_token() has produced, in order
    seen,        \* per call: what the validity check read
    fetched,     \* per call: request_token() invocations of this call
    result,      \* per call: how the call ended
    \* the process that uses hapctl::Client (src/src/client.rs, main.rs)
    env_key,     \* the environment variable IBMCLOUD_API_KEY, an Option
    driver,      \* "main" (src/src/main.rs) or "lib" (a caller of the crate)
    cpc,         \* where the process is in get_weight / set_weight
    cur,         \* the call in progress: operation and server name
    ret,         \* what the last call returned
    ctr,         \* what the process has done so far, in counts
    entry,       \* ctr when the call in progress was entered
    stdout,      \* the lines main has printed
    exit         \* how the process ended: exit status and panic message

tokenVars == <<cached, lock_owner, poisoned, now, pc, calls, fetches,
               requests, issued, seen, fetched, result>>

cliVars == <<env_key, driver, cpc, cur, ret, ctr, entry, stdout, exit>>

vars == <<cached, lock_owner, poisoned, now, pc, calls, fetches, requests,
          issued, seen, fetched, result,
          env_key, driver, cpc, cur, ret, ctr, entry, stdout, exit>>

\* ----------------------------------------------------------------- Token
\* checked_duration_since taken for a comparison with > : an Instant equal to
\* earlier gives None
checked_duration_since_strict(self, earlier) ==
    IF self > earlier THEN <<self - earlier>> ELSE <<>>

\* Instant::checked_duration_since: Some(self - earlier) when self is at or
\* after earlier, None when earlier is later than self
checked_duration_since(self, earlier) ==
    IF self >= earlier THEN Some(self - earlier) ELSE None

\* a validity check that never accepts a token
valid_never(t, at) == FALSE

\* Token::valid, with the clock reading passed in
valid(t, at) == checked_duration_since(at, t.expiry) = None

\* Instant + Duration: checked_add(..).expect("overflow when adding duration
\* to instant"); None stands for the panic
instant_add(at, secs) ==
    IF at + secs > InstantMax THEN None ELSE Some(at + secs)

\* the lifetime Token::from gives a response
lifetime(tr) == unwrap_or(tr.expires_in, DefaultLifetime)

\* impl From<TokenResponse> for Token; defined when instant_add is Some
TokenFrom(tr, at) ==
    [access_token  |-> tr.access_token,
     token_type    |-> tr.token_type,
     refresh_token |-> unwrap_or(tr.refresh_token, ""),
     expiry        |-> unwrap(instant_add(at, lifetime(tr)))]

\* the values of expires_in the model lets the provider send
ExpiresIn == {None, Some(0), Some(1), Some(U64Max)}

\* struct TokenResponse, for the credential the provider issues to request
\* number n: refresh_token and expires_in are optional
TokenResponse(n) ==
    [access_token  : {n},
     token_type    : {"Bearer"},
     refresh_token : {None, Some("r")},
     expires_in    : ExpiresIn]

\* the responses the model lets the provider send to request number n: one
\* that omits refresh_token and expires_in, and one with a refresh_token for
\* every number of seconds in ExpiresIn
Responses(n) ==
    {tr \in TokenResponse(n) :
        tr.refresh_token = None <=> tr.expires_in = None}

\* ----------------------------------------------------------- call records
\* what a call has observed: whether another call was inside token() when it
\* started (raced), and what its validity check read: the slot, the clock,
\* the outcome of valid() and the number of the request it then sent (req)
NoSeen ==
    [raced |-> FALSE, checked |-> FALSE, cached |-> None, at |-> 0,
     valid |-> FALSE, req |-> 0]
NoResult == [kind |-> "none", token |-> None, why |-> "", at |-> 0]
Ok(t, at) == [kind |-> "ok", token |-> Some(t), why |-> "", at |-> at]
Panic(why) == [kind |-> "panic", token |-> None, why |-> why, at |-> 0]

\* Client::new: an unlocked mutex around None
TokenInit ==
    /\ cached = None
    /\ lock_owner = NoThread
    /\ poisoned = FALSE
    /\ now = 0
    /\ pc = [t \in Threads |-> "idle"]
    /\ calls = 0
    /\ fetches = 0
    /\ requests = 0
    /\ issued = <<>>
    /\ seen = [t \in Threads |-> NoSeen]
    /\ fetched = [t \in Threads |-> 0]
    /\ result = [t \in Threads |-> NoResult]

\* a process that has not called get_weight / set_weight yet
NoCall == [op |-> "", name |-> <<>>]
NoRet == [kind |-> "none", text |-> ""]
NoCounts ==
    [env_reads |-> 0, clients |-> 0, token_calls |-> 0, idp_requests |-> 0,
     api_requests |-> 0, cmds |-> 0]
Running == [status |-> None, panic |-> ""]

CliStart ==
    /\ cpc = "ready"
    /\ cur = NoCall
    /\ ret = NoRet
    /\ ctr = NoCounts
    /\ entry = NoCounts
    /\ stdout = <<>>
    /\ exit = Running

\* threads share one iam::Client; no process-level call is made
Init ==
    /\ TokenInit
    /\ env_key = Some("k")
    /\ driver = "lib"
    /\ CliStart

\* the monotonic clock advances
Tick ==
    /\ now < MaxTime
    /\ now' = now + 1
    /\ UNCHANGED <<cached, lock_owner, poisoned, pc, calls, fetches, issued,
                   seen, fetched, result>>
    /\ UNCHANGED requests
    /\ UNCHANGED cliVars

\* a thread enters Client::token() and reaches self.token.lock()
Call(t) ==
    /\ pc[t] \in {"idle", "done"}
    /\ calls < MaxCalls
    /\ calls' = calls + 1
    /\ pc' = [pc EXCEPT ![t] = "waiting"]
    /\ seen' = [seen EXCEPT ![t] = [NoSeen EXCEPT !.raced =
                    \E u \in Threads \ {t} :
                        pc[u] \in {"waiting", "locked", "fetching", "hung"}]]
    /\ fetched' = [fetched EXCEPT ![t] = 0]
    /\ result' = [result EXCEPT ![t] = NoResult]
    /\ UNCHANGED <<cached, lock_owner, poisoned, now, fetches, issued>>
    /\ UNCHANGED requests
    /\ UNCHANGED cliVars

\* a lock that never waits for the holder
MutexAlwaysAvailable == TRUE

\* Mutex::lock blocks until no other thread holds the guard
MutexAvailable == lock_owner = NoThread

\* self.token.lock().unwrap() on a mutex that is not poisoned
Lock(t) ==
    /\ pc[t] = "waiting"
    /\ MutexAvailable
    /\ ~poisoned
    /\ lock_owner' = t
    /\ pc' = [pc EXCEPT ![t] = "locked"]
    /\ UNCHANGED <<cached, poisoned, now, calls, fetches, issued, seen,
                   fetched, result>>
    /\ UNCHANGED requests
    /\ UNCHANGED cliVars

\* self.token.lock().unwrap() on a poisoned mutex: lock() is Err(PoisonError)
\* and unwrap() panics; the guard inside the error is dropped by the unwind
LockPoisoned(t) ==
    /\ pc[t] = "waiting"
    /\ MutexAvailable
    /\ poisoned
    /\ pc' = [pc EXCEPT ![t] = "panicked"]
    /\ result' = [result EXCEPT ![t] = Panic("PoisonError")]
    /\ UNCHANGED <<cached, lock_owner, poisoned, now, calls, fetches, issued,
                   seen, fetched>>
    /\ UNCHANGED requests
    /\ UNCHANGED cliVars

\* a check that takes any cached token without asking valid()
CacheHitAnyToken(c, at) == Len(c) = 1

\* a check that never takes the cached token
CacheHitNever(c, at) == FALSE

\* token.clone() is Some(t) and t.valid()
CacheHit(c, at) == IsSome(c) /\ valid(unwrap(c), at)

\* a hit that renews the lifetime of the cached token
after_hit_renewed(c, at) == <<[c[1] EXCEPT !.expiry = at + DefaultLifetime]>>

\* the slot after the hit path: token.clone() and t.valid() take &self, the
\* slot is not written
after_hit(c, at) == c

\* a guard that is never dropped
guard_kept(owner) == owner

\* the MutexGuard goes out of scope when token() returns or unwinds: the
\* mutex has no owner
drop_guard(owner) == NoThread

\* if let Some(t) = token.clone() { if t.valid() { return Ok(t); } }
\* the guard is dropped on return
CheckHit(t) ==
    /\ pc[t] = "locked"
    /\ CacheHit(cached, now)
    /\ seen' = [seen EXCEPT ![t] = [@ EXCEPT !.checked = TRUE,
                    !.cached = cached, !.at = now,
                    !.valid = CacheHit(cached, now)]]
    /\ result' = [result EXCEPT ![t] = Ok(unwrap(cached), now)]
    /\ pc' = [pc EXCEPT ![t] = "done"]
    /\ lock_owner' = drop_guard(lock_owner)
    /\ cached' = after_hit(cached, now)
    /\ UNCHANGED <<poisoned, now, calls, fetches, issued, fetched>>
    /\ UNCHANGED requests
    /\ UNCHANGED cliVars

\* a request that is sent again when the first attempt got no answer
send_with_retry(n) == n + 2

\* c.post(..)...send(): request_token() sends one POST, n were sent before
send(n) == n + 1

\* the check falls through to self.request_token(): the request is sent
\* while the guard is held
CheckMiss(t) ==
    /\ pc[t] = "locked"
    /\ ~CacheHit(cached, now)
    /\ seen' = [seen EXCEPT ![t] = [@ EXCEPT !.checked = TRUE,
                    !.cached = cached, !.at = now,
                    !.valid = CacheHit(cached, now), !.req = fetches + 1]]
    /\ fetches' = fetches + 1
    /\ requests' = send(requests)
    /\ fetched' = [fetched EXCEPT ![t] = @ + 1]
    /\ pc' = [pc EXCEPT ![t] = "fetching"]
    /\ UNCHANGED <<cached, lock_owner, poisoned, now, calls, issued, result>>
    /\ UNCHANGED cliVars

\* a store that writes the new credential but keeps the expiry of the old one
StoreTokenMerged(old, new) ==
    IF old = <<>> THEN <<new>> ELSE <<[new EXCEPT !.expiry = old[1].expiry]>>

\* a store that fills the slot only when it is empty
StoreTokenIfEmpty(old, new) == IF old = <<>> THEN <<new>> ELSE old

\* *token = Some(..): the slot is overwritten with the new token
StoreToken(old, new) == Some(new)

\* request_token() returns a Token: *token = Some(..); Ok(token.clone())
FetchOk(t) ==
    /\ pc[t] = "fetching"
    /\ \E tr \in Responses(fetches) :
        /\ IsSome(instant_add(now, lifetime(tr)))
        /\ LET tok == TokenFrom(tr, now) IN
            /\ cached' = StoreToken(cached, tok)
            /\ issued' = Append(issued, tok)
            /\ result' = [result EXCEPT
                            ![t] = Ok(unwrap(StoreToken(cached, tok)), now)]
    /\ pc' = [pc EXCEPT ![t] = "done"]
    /\ lock_owner' = drop_guard(lock_owner)
    /\ UNCHANGED <<poisoned, now, calls, fetches, seen, fetched>>
    /\ UNCHANGED requests
    /\ UNCHANGED cliVars

\* the panics of request_token(): send().expect(..), text().expect(..) and
\* serde_json::from_str(..).unwrap()
FetchFailures == {"Get token failed", "Getting body text failed", "serde_json"}

\* a thread that panics while it holds the guard poisons the mutex and
\* releases it; the slot is left as it was
FetchFail(t) ==
    /\ pc[t] = "fetching"
    /\ \E why \in FetchFailures :
        result' = [result EXCEPT ![t] = Panic(why)]
    /\ pc' = [pc EXCEPT ![t] = "panicked"]
    /\ poisoned' = TRUE
    /\ lock_owner' = drop_guard(lock_owner)
    /\ UNCHANGED <<cached, now, calls, fetches, issued, seen, fetched>>
    /\ UNCHANGED requests
    /\ UNCHANGED cliVars

\* the response parses but Instant::now() + Duration::from_secs(expires_in)
\* overflows: token_resp.into() panics under the guard
FetchOverflow(t) ==
    /\ pc[t] = "fetching"
    /\ \E tr \in Responses(fetches) :
        instant_add(now, lifetime(tr)) = None
    /\ result' = [result EXCEPT
                    ![t] = Panic("overflow when adding duration to instant")]
    /\ pc' = [pc EXCEPT ![t] = "panicked"]
    /\ poisoned' = TRUE
    /\ lock_owner' = drop_guard(lock_owner)
    /\ UNCHANGED <<cached, now, calls, fetches, issued, seen, fetched>>
    /\ UNCHANGED requests
    /\ UNCHANGED cliVars

\* the POST never gets an answer: send() does not return, request_token()
\* and token() do not return, the guard is never dropped
Hang(t) ==
    /\ pc[t] = "fetching"
    /\ pc' = [pc EXCEPT ![t] = "hung"]
    /\ UNCHANGED <<cached, lock_owner, poisoned, now, calls, fetches, issued,
                   seen, fetched, result>>
    /\ UNCHANGED requests
    /\ UNCHANGED cliVars

Next ==
    \/ Tick
    \/ \E t \in Threads : Call(t)
    \/ \E t \in Threads : Lock(t)
    \/ \E t \in Threads : LockPoisoned(t)
    \/ \E t \in Threads : CheckHit(t)
    \/ \E t \in Threads : CheckMiss(t)
    \/ \E t \in Threads : FetchOk(t)
    \/ \E t \in Threads : FetchFail(t)
    \/ \E t \in Threads : FetchOverflow(t)
    \/ \E t \in Threads : Hang(t)

Spec == Init /\ [][Next]_vars

\* the steps of token() when every exchange with the provider succeeds
NextFair ==
    \/ Tick
    \/ \E t \in Threads : Call(t)
    \/ \E t \in Threads : Lock(t)
    \/ \E t \in Threads : CheckHit(t)
    \/ \E t \in Threads : CheckMiss(t)
    \/ \E t \in Threads : FetchOk(t)

\* a thread inside token() keeps running, the provider answers every request,
\* and a thread that finds the mutex free and stays able to take it gets it
Fairness ==
    \A t \in Threads :
        /\ WF_vars(Lock(t))
        /\ WF_vars(CheckHit(t))
        /\ WF_vars(CheckMiss(t))
        /\ WF_vars(FetchOk(t))

SpecFair == Init /\ [][NextFair]_vars /\ Fairness

\* ------------------------------------------------- get_weight / set_weight
\* server names are strings over a letter and the separator
Chars == {"a", "/"}
Names == UNION {[1..n -> Chars] : n \in 0..MaxNameLen}

\* server_name.split("/").collect(): the pieces between the separators, the
\* empty ones included; a string without separator is one piece
RECURSIVE Split(_)
Split(s) ==
    IF s = <<>> THEN << <<>> >>
    ELSE LET rest == Split(Tail(s)) IN
         IF Head(s) = "/" THEN << <<>> >> \o rest
         ELSE << <<Head(s)>> \o rest[1] >> \o Tail(rest)

\* a name check that only refuses names with too few parts
TooFewParts(parts) == Len(parts) < 2

\* if parts.len() != 2 { return Err(InvalidServerNameError.into()); }
WrongParts(parts) == Len(parts) # 2

\* impl Display for InvalidServerNameError
InvalidServerNameError == "invalid server name given"

\* a missing key replaced by the empty string
api_key_or_empty(env) == IF env = <<>> THEN <<"">> ELSE env

\* match std::env::var("IBMCLOUD_API_KEY"): Ok(k) => k, _ => panic!(..);
\* None stands for the panic
api_key(env) == env

MissingKeyPanic == "'IBMCLOUD_API_KEY' not set or invalid"

Operations == {"get_weight", "set_weight"}

\* the status of a process that a panic ended (the Rust runtime's 101)
PanicStatus == 101
\* the status of a process whose main returned
MainReturned == 0

Panicked(msg) == [status |-> Some(PanicStatus), panic |-> msg]

\* get_weight / set_weight is entered and splits the server name; a name that
\* does not have two parts is refused at once
CliEnter ==
    /\ cpc = "ready"
    /\ ctr.cmds < MaxCmds
    /\ driver = "main" => ctr.cmds = 0
    /\ \E op \in Operations, name \in Names :
        /\ cur' = [op |-> op, name |-> name]
        /\ IF WrongParts(Split(name))
           THEN /\ ret' = [kind |-> "err", text |-> InvalidServerNameError]
                /\ cpc' = "returned"
           ELSE /\ ret' = NoRet
                /\ cpc' = "validated"
    /\ ctr' = [ctr EXCEPT !.cmds = @ + 1]
    /\ entry' = ctr'
    /\ UNCHANGED <<env_key, driver, stdout, exit>>
    /\ UNCHANGED tokenVars

\* iam::Client::default(): reads the key from the environment and builds a
\* Client around an empty slot, or panics when the key is missing
CliConstruct ==
    /\ cpc = "validated"
    /\ IF api_key(env_key) = None
       THEN /\ ctr' = [ctr EXCEPT !.env_reads = @ + 1]
            /\ cpc' = "exited"
            /\ exit' = Panicked(MissingKeyPanic)
       ELSE /\ ctr' = [ctr EXCEPT !.env_reads = @ + 1, !.clients = @ + 1]
            /\ cpc' = "constructed"
            /\ exit' = exit
    /\ UNCHANGED <<env_key, driver, cur, ret, entry, stdout>>
    /\ UNCHANGED tokenVars

\* .token()? on the Client just built: its slot is None, the check misses and
\* request_token() sends one POST; the token comes back
CliTokenOk ==
    /\ cpc = "constructed"
    /\ ~CacheHit(None, now)
    /\ \E tr \in Responses(ctr.idp_requests + 1) :
        IsSome(instant_add(now, lifetime(tr)))
    /\ ctr' = [ctr EXCEPT !.token_calls = @ + 1,
                          !.idp_requests = send(@)]
    /\ cpc' = "tokened"
    /\ UNCHANGED <<env_key, driver, cur, ret, entry, stdout, exit>>
    /\ UNCHANGED tokenVars

\* .token()? on the Client just built when the exchange fails or the expiry
\* overflows: request_token() panics and the process ends
CliTokenPanic ==
    /\ cpc = "constructed"
    /\ ~CacheHit(None, now)
    /\ ctr' = [ctr EXCEPT !.token_calls = @ + 1,
                          !.idp_requests = send(@)]
    /\ cpc' = "exited"
    /\ \E why \in FetchFailures \cup
                    {"overflow when adding duration to instant"} :
        exit' = Panicked(why)
    /\ UNCHANGED <<env_key, driver, cur, ret, entry, stdout>>
    /\ UNCHANGED tokenVars

\* the request to the weight API with the Bearer header: .send()?.text()?
\* gives the body, or the transport error is returned
CliRequest ==
    /\ cpc = "tokened"
    /\ ctr' = [ctr EXCEPT !.api_requests = @ + 1]
    /\ \E r \in {[kind |-> "ok", text |-> "body"],
                 [kind |-> "err", text |-> "error sending request"]} :
        ret' = r
    /\ cpc' = "returned"
    /\ UNCHANGED <<env_key, driver, cur, entry, stdout, exit>>
    /\ UNCHANGED tokenVars

\* main: println!("{}", client.get_weight(..).unwrap_or_else(|c|
\* c.to_string())), then main returns
CliMainPrint ==
    /\ cpc = "returned"
    /\ driver = "main"
    /\ stdout' = Append(stdout, ret.text)
    /\ exit' = [status |-> Some(MainReturned), panic |-> ""]
    /\ cpc' = "exited"
    /\ UNCHANGED <<env_key, driver, cur, ret, ctr, entry>>
    /\ UNCHANGED tokenVars

\* a caller of the crate takes the Result and goes on
CliLibReturn ==
    /\ cpc = "returned"
    /\ driver = "lib"
    /\ cpc' = "ready"
    /\ UNCHANGED <<env_key, driver, cur, ret, ctr, entry, stdout, exit>>
    /\ UNCHANGED tokenVars

\* one process: the binary of main.rs or a caller of the crate, with or
\* without the key in its environment
InitCli ==
    /\ TokenInit
    /\ env_key \in {None, Some("k")}
    /\ driver \in {"main", "lib"}
    /\ CliStart

NextCli ==
    \/ CliEnter
    \/ CliConstruct
    \/ CliTokenOk
    \/ CliTokenPanic
    \/ CliRequest
    \/ CliMainPrint
    \/ CliLibReturn

SpecCli == InitCli /\ [][NextCli]_vars

\* ------------------------------------------------------------ vocabulary
InCriticalSection(t) == pc[t] \in {"locked", "fetching", "hung"}
Ended(t) == pc[t] \in {"done", "panicked"}
ReturnedOk(t) == pc[t] = "done" /\ result[t].kind = "ok"
\* the check of call t found a token that was not expired, by the clock
SawValid(t) ==
    /\ seen[t].checked
    /\ seen[t].cached # None
    /\ seen[t].at < seen[t].cached[1].expiry
\* the check of call t found the slot empty or the token expired
SawMiss(t) ==
    /\ seen[t].checked
    /\ \/ seen[t].cached = None
       \/ seen[t].at >= seen[t].cached[1].expiry
\* call t ended in a panic of its own request_token()
FailedRefresh(t) ==
    /\ pc[t] = "panicked"
    /\ fetched[t] = 1

\* ------------------------------------------------------------------- C1
\* C1: every token returned by token() is not expired at the moment it is
\* returned: its expiry is strictly after the clock reading of the return,
\* from the cache and from a fresh fetch alike.
ReturnedTokenNotExpired ==
    \A t \in Threads :
        ReturnedOk(t) => result[t].at < result[t].token[1].expiry

\* ------------------------------------------------------------------- C2
\* C2: at every moment at most one call is inside the critical section
\* (check, fetch, store), so at most one fetch is in flight, and the call
\* inside it is the one that holds the lock.
MutualExclusion ==
    /\ Cardinality({t \in Threads : InCriticalSection(t)}) <= 1
    /\ Cardinality({t \in Threads : pc[t] = "fetching"}) <= 1
    /\ \A t \in Threads : InCriticalSection(t) <=> lock_owner = t

\* a fetch is in flight while another caller is blocked on the lock
WitnessFetchWhileWaiting ==
    \E t, u \in Threads :
        /\ pc[t] = "fetching"
        /\ lock_owner = t
        /\ pc[u] = "waiting"

\* ------------------------------------------------------------------- C3
\* the fetched tokens whose expiry the clock has reached
ExpiredIssued == {i \in DOMAIN issued : issued[i].expiry <= now}

\* C3, as stated: when every thread calls token() once on the empty cache,
\* each caller after the first arriving while another call is inside token(),
\* all calls return tokens equal to each other and the fetch is invoked
\* exactly once in total.
ConcurrentCallersFetchOnce ==
    ( /\ calls = NThreads
      /\ \A t \in Threads : ReturnedOk(t)
      /\ \E t \in Threads : \A u \in Threads \ {t} : seen[u].raced )
    => /\ fetches = 1
       /\ \A t, u \in Threads : result[t].token = result[u].token

\* C3, amended: the fetch is invoked once for the miss and again only by a
\* caller whose check finds the token fetched before it already expired: the
\* number of fetches never exceeds one plus the number of fetched tokens that
\* have expired, a call that returned a token implies at least one fetch, and
\* the calls that returned tokens that are still valid returned equal tokens.
FetchesBoundedByExpiry ==
    /\ fetches <= 1 + Cardinality(ExpiredIssued)
    /\ (\E t \in Threads : ReturnedOk(t)) => fetches >= 1
    /\ \A t, u \in Threads :
        ( /\ ReturnedOk(t)
          /\ ReturnedOk(u)
          /\ now < result[t].token[1].expiry
          /\ now < result[u].token[1].expiry )
        => result[t].token = result[u].token

\* two callers raced on the empty cache, one fetch served both
WitnessOneFetchServesAll ==
    \E t, u \in Threads :
        /\ t # u
        /\ calls = 2
        /\ seen[u].raced
        /\ ReturnedOk(t)
        /\ ReturnedOk(u)
        /\ fetched[t] = 1
        /\ fetched[u] = 0
        /\ fetches = 1
        /\ result[t].token = result[u].token

\* ------------------------------------------------------------------- C4
\* C4: a call whose check finds a cached token that is valid at the time of
\* the check returns a token equal to the cached one and invokes the fetch
\* zero times; so calls that find the same valid token return equal tokens.
CacheHitNoFetch ==
    /\ \A t \in Threads :
        SawValid(t) =>
            /\ ReturnedOk(t)
            /\ result[t].token = seen[t].cached
            /\ fetched[t] = 0
            /\ seen[t].req = 0
    /\ \A t, u \in Threads :
        (SawValid(t) /\ SawValid(u) /\ seen[t].cached = seen[u].cached)
        => result[t].token = result[u].token

\* two calls were served the same valid cached token, neither fetched
WitnessTwoCacheHits ==
    \E t, u \in Threads :
        /\ t # u
        /\ SawValid(t)
        /\ SawValid(u)
        /\ seen[t].cached = seen[u].cached
        /\ fetched[t] = 0
        /\ fetched[u] = 0
        /\ ReturnedOk(t)
        /\ ReturnedOk(u)

\* ------------------------------------------------------------------- C5
\* C5: a call whose check finds the slot empty or the token not valid, and
\* whose fetch succeeds, invokes the fetch exactly once, returns the token
\* the provider produced for that request, and has stored it in the slot:
\* the slot holds it until a later fetch replaces it.
CacheMissFetchesOnce ==
    \A t \in Threads :
        (SawMiss(t) /\ pc[t] = "done") =>
            /\ result[t].kind = "ok"
            /\ fetched[t] = 1
            /\ result[t].token[1].access_token = seen[t].req
            /\ \E i \in DOMAIN issued :
                /\ issued[i] = result[t].token[1]
                /\ (i = Len(issued) => cached = result[t].token)

\* a fetch replaced an expired token in the slot and was returned
WitnessRefreshReplacesExpired ==
    \E t \in Threads :
        /\ pc[t] = "done"
        /\ SawMiss(t)
        /\ seen[t].cached # None
        /\ fetched[t] = 1
        /\ cached = result[t].token
        /\ cached # seen[t].cached

\* ------------------------------------------------------------------- C6
\* C6: after a refresh attempt that failed while the slot held an expired
\* token, the slot still equals its value before the attempt, and the cache
\* is left in a state from which a later token() can read it.
FailedRefreshLeavesCacheUsable ==
    \A t \in Threads :
        (FailedRefresh(t) /\ seen[t].cached # None) =>
            /\ cached = seen[t].cached
            /\ ~poisoned

\* ------------------------------------------------------------------- C7
\* C7: when the exchange fails, token() ends with an error result handed to
\* its caller, not with the calling thread aborted.
FetchFailureReturnsError ==
    \A t \in Threads :
        (fetched[t] = 1 /\ pc[t] # "fetching" /\ result[t].kind # "ok")
        => (pc[t] = "done" /\ result[t].kind = "err")

\* ------------------------------------------------------------------- C8
\* C8: a caller that was blocked on the lock is released when the holder's
\* call finishes, also when it failed, and then runs its own check (and
\* fetch): every call that has ended after arriving while another call was
\* inside token() has run its own validity check.
WaiterRunsOwnCheck ==
    \A t \in Threads :
        (Ended(t) /\ seen[t].raced) => seen[t].checked

\* ------------------------------------------------------------------- C9
\* C9: Token::valid() is true if and only if the clock is strictly before
\* expiry: for the token in the slot at the current clock reading, and for
\* every validity check a call has made, at the reading it was made.
ValidIffBeforeExpiry ==
    /\ cached # None => (valid(cached[1], now) <=> now < cached[1].expiry)
    /\ \A t \in Threads :
        (seen[t].checked /\ seen[t].cached # None) =>
            (seen[t].valid <=> seen[t].at < seen[t].cached[1].expiry)

\* a check made at the very instant of expiry found the token not valid
WitnessCheckedAtExpiry ==
    \E t \in Threads :
        /\ seen[t].checked
        /\ seen[t].cached # None
        /\ seen[t].at = seen[t].cached[1].expiry
        /\ ~seen[t].valid
        /\ fetched[t] = 1

\* ------------------------------------------------------------------ C10
\* C10: building a Token from a parsed response never fails, whatever
\* expires_in the response carries: no call ends in the panic of
\* Instant::now() + Duration::from_secs(expires_in), and the expiry of a
\* fetched token is the clock reading of its construction plus the lifetime
\* of a response.
TokenConstructionNeverFails ==
    \A t \in Threads :
        /\ result[t].why # "overflow when adding duration to instant"
        /\ (ReturnedOk(t) /\ fetched[t] = 1) =>
            \E tr \in TokenResponse(seen[t].req) :
                result[t].token[1].expiry = result[t].at + lifetime(tr)

\* ------------------------------------------------------------------ C14
\* the slot is empty before the first successful fetch and afterwards holds
\* exactly the token the most recent successful fetch produced
CachedIsLatestIssued ==
    lock_owner = NoThread =>
        /\ issued = <<>> => cached = None
        /\ issued # <<>> => cached = Some(issued[Len(issued)])

\* C14: in every state where no call holds the lock, cached is empty if no
\* fetch has succeeded yet and otherwise equals the token of the most recent
\* successful fetch, whole; and cached never goes from populated to empty.
CachedReplacedWholesale ==
    /\ []CachedIsLatestIssued
    /\ [][cached # None => cached' # None]_vars

\* the lock is free and the slot holds the second token fetched, which
\* differs from the first in every field the provider and the clock set
WitnessSecondTokenCached ==
    /\ lock_owner = NoThread
    /\ Len(issued) = 2
    /\ cached = Some(issued[2])
    /\ issued[1].access_token # issued[2].access_token
    /\ issued[1].refresh_token # issued[2].refresh_token
    /\ issued[1].expiry # issued[2].expiry

\* ------------------------------------------------------------------ C15
\* C15: each call of token() invokes request_token() at most once and each
\* invocation sends exactly one request, without retry, also when the fetch
\* fails or the fetched token is expired when stored: the number of requests
\* equals the number of invocations and never exceeds the number of calls.
RequestsBoundedByCalls ==
    /\ \A t \in Threads : fetched[t] <= 1
    /\ requests = fetches
    /\ requests <= calls

\* one call stored a token that was already expired, another call's fetch
\* failed: two calls, two requests
WitnessExpiredThenFailed ==
    \E t, u \in Threads :
        /\ ReturnedOk(t)
        /\ fetched[t] = 1
        /\ result[t].token[1].expiry <= result[t].at
        /\ FailedRefresh(u)
        /\ calls = 2
        /\ requests = 2

\* ------------------------------------------------------------------ C17
\* C17: a call that finds a valid cached token leaves the slot unchanged in
\* all four fields, and the slot changes only when a fetch stores the whole
\* token it produced: hits never extend a token's lifetime.
ExpiryFixedAtConstruction ==
    [][ /\ \A t \in Threads :
            (pc[t] = "locked" /\ pc'[t] = "done") => cached' = cached
        /\ cached' # cached =>
            /\ Len(issued') = Len(issued) + 1
            /\ cached' = Some(issued'[Len(issued')]) ]_vars

\* a call was served from the cache after the clock had advanced past the
\* construction of the token, and the slot still holds that very token
WitnessHitLeavesToken ==
    \E t \in Threads :
        /\ SawValid(t)
        /\ ReturnedOk(t)
        /\ seen[t].at > 0
        /\ seen[t].cached[1].expiry = DefaultLifetime
        /\ cached = seen[t].cached
        /\ cached = Some(issued[Len(issued)])

\* ------------------------------------------------------------------ C19
\* C19: the expiry held in cached never decreases: each token stored has an
\* expiry greater than or equal to that of the token it replaces.
ExpiryNeverDecreases ==
    [][(cached # None /\ cached' # None)
        => cached'[1].expiry >= cached[1].expiry]_vars

\* an expired token was replaced by one that expires later
WitnessLaterExpiryStored ==
    /\ Len(issued) >= 2
    /\ cached = Some(issued[Len(issued)])
    /\ issued[Len(issued)].expiry > issued[Len(issued) - 1].expiry

\* ------------------------------------------------------------------ C16
\* C16: there is no timeout: once the network call of the lock holder never
\* returns, the holder stays in token() with the lock, and every other call
\* can only reach the lock and wait there, without a token or an error.
HangBlocksEveryCaller ==
    [][ \A t \in Threads :
            pc[t] = "hung" =>
                /\ pc'[t] = "hung"
                /\ lock_owner' = t
                /\ \A u \in Threads \ {t} :
                    /\ pc'[u] \in {pc[u], "waiting"}
                    /\ pc'[u] = "waiting" => result'[u].kind = "none" ]_vars

\* the holder's request hangs and a call that arrived meanwhile is waiting
WitnessWaitingOnHungHolder ==
    \E t, u \in Threads :
        /\ pc[t] = "hung"
        /\ lock_owner = t
        /\ pc[u] = "waiting"
        /\ seen[u].raced
        /\ result[u].kind = "none"

\* ------------------------------------------------------------------ C18
\* C18: when every fetch succeeds and the lock is granted fairly, every call
\* of token() that has started eventually returns a token, and whenever no
\* call is inside token() the lock is free.
EveryCallReturns ==
    /\ \A t \in Threads : (pc[t] = "waiting") ~> ReturnedOk(t)
    /\ []((\A t \in Threads : pc[t] \in {"idle", "done"})
            => lock_owner = NoThread)

\* all the calls the threads made concurrently have returned tokens and the
\* lock is free
WitnessAllReturned ==
    /\ calls = MaxCalls
    /\ \A t \in Threads : ReturnedOk(t)
    /\ \E t \in Threads : seen[t].raced
    /\ lock_owner = NoThread

\* ------------------------------------------------------------------ C11
\* C11: when the API key is missing, building the iam::Client fails fatally
\* at construction: no Client exists, token() is never entered, no request
\* is sent, and the failure is not a per-call error: the only error a call
\* returns is the refused server name, and a call that reached the
\* construction ended the process with the missing-key panic.
MissingKeyFatalAtConstruction ==
    env_key = None =>
        /\ ctr.clients = 0
        /\ ctr.token_calls = 0
        /\ ctr.idp_requests = 0
        /\ ctr.api_requests = 0
        /\ cpc \notin {"constructed", "tokened"}
        /\ ret.kind = "err" => ret.text = InvalidServerNameError
        /\ ctr.env_reads > 0 =>
            /\ cpc = "exited"
            /\ exit = [status |-> Some(PanicStatus), panic |-> MissingKeyPanic]

\* a call with a well-formed name read the environment, found no key and
\* ended the process
WitnessMissingKeyPanic ==
    /\ env_key = None
    /\ ctr.env_reads = 1
    /\ cpc = "exited"
    /\ exit.panic = MissingKeyPanic
    /\ ret = NoRet

\* ------------------------------------------------------------------ C12
\* C12: across any sequence of get_weight and set_weight calls in one
\* process exactly one token cache is constructed, and every call that asks
\* for a token asks that one instance.
OneCachePerProcess ==
    /\ ctr.clients <= 1
    /\ ctr.token_calls >= 1 => ctr.clients = 1

\* ------------------------------------------------------------------ C13
\* C13: when the command of the binary ends in an error, main prints the
\* error's text in place of the result and the process exits non-zero.
ErrorExitsNonZero ==
    (driver = "main" /\ cpc = "exited") =>
        /\ ret.kind = "err" =>
            /\ stdout = <<ret.text>>
            /\ exit.status # Some(0)
        /\ exit.panic # "" => exit.status # Some(0)

\* ------------------------------------------------------------------ C20
\* number of separators in a server name
SlashCount(name) == Cardinality({i \in DOMAIN name : name[i] = "/"})

\* C20: a call whose server name does not have exactly one separator returns
\* 'invalid server name given' and has done nothing else: the key was not
\* read, no Client was built, no request was sent to the identity provider
\* or to the weight API.
NameCheckedFirst ==
    (cur.op # "" /\ SlashCount(cur.name) # 1) =>
        /\ cpc \in {"returned", "ready", "exited"}
        /\ ret = [kind |-> "err", text |-> InvalidServerNameError]
        /\ ctr = entry
        /\ exit.panic = ""

\* a name with two separators was refused in a process that has no key in
\* its environment: nothing was read, built or sent
WitnessNameRefused ==
    /\ env_key = None
    /\ cur.op = "set_weight"
    /\ SlashCount(cur.name) = 2
    /\ cpc = "returned"
    /\ ret.text = InvalidServerNameError
    /\ ctr.env_reads = 0
    /\ ctr.clients = 0
    /\ ctr.idp_requests = 0
    /\ ctr.api_requests = 0

====
